---- MODULE Spec2Model ----
(***************************************************************************)
(* Restore engine of vmrestore: lib/backup/actions Restore.Run, the local  *)
(* destination lib/backup/fslocal and the remote part download.            *)
(*                                                                         *)
(* A file is a sequence of bytes.  The byte the backup holds at file       *)
(* offset o (0-based) is written o+1; a byte that does not come from the   *)
(* backup (old local data, a hole) is written 0.                           *)
(***************************************************************************)
EXTENDS Integers, Sequences, FiniteSets, TLC

\* ---------------------------------------------------------------- bounds
MaxPartSize == 2                  \* common.MaxPartSize, scaled down from 1 GiB
MaxFileSize == MaxPartSize + 1    \* longest file: one full part and one byte
MaxSrcParts == 3                  \* most parts a remote listing holds
MaxRuns     == 2                  \* how many times vmrestore is started

Paths   == {"a", "d/b"}
Dirs    == {"d"}
\* -concurrency: at most one worker per path of the model
Concurrency == Cardinality(Paths)
\* the workers a pool can have; DOMAIN wk are those of this pool
Workers == 1..Concurrency

ParentDir(path) == IF path = "d/b" THEN {"d"} ELSE {}

\* order of the path strings, as Go compares them ("a" < "d/b")
PathOrd(path) == CASE path = ""    -> 0
                   [] path = "a"   -> 1
                   [] path = "d/b" -> 2

Min(x, y) == IF x < y THEN x ELSE y

\* ------------------------------------------------------------ common.Part
Part(path, fileSize, offset, size, actualSize) ==
    [Path |-> path, FileSize |-> fileSize, Offset |-> offset,
     Size |-> size, ActualSize |-> actualSize]

\* the zero value of common.Part (var pOld common.Part)
ZeroPart == Part("", 0, 0, 0, 0)

\* identity of a part when two listings are compared
PartKey(p) == <<p.Path, p.FileSize, p.Offset, p.Size>>

\* common.PartsDifference(a, b): the parts of a that are missing in b
PartsDifference(a, b) == {p \in a : PartKey(p) \notin {PartKey(q) : q \in b}}

RECURSIVE SumSizes(_)
SumSizes(S) == IF S = {} THEN 0
               ELSE LET p == CHOOSE q \in S : TRUE
                    IN  p.Size + SumSizes(S \ {p})

\* getPartsSize(parts): the parts of a listing are distinct values
getPartsSize(parts) == SumSizes(parts)

PartsOfPath(parts, path) == {p \in parts : p.Path = path}
PathsOf(parts) == {p.Path : p \in parts}

\* common.SortParts: by path, then by offset.  sort.Slice is not stable,
\* so parts with equal (path, offset) may come out in any order.
PartLess(p, q) == \/ PathOrd(p.Path) < PathOrd(q.Path)
                  \/ p.Path = q.Path /\ p.Offset < q.Offset

SortParts(parts) ==
    {s \in [1..Cardinality(parts) -> parts] :
        /\ \A i, j \in DOMAIN s : i # j => s[i] # s[j]
        /\ \A i, j \in DOMAIN s : i < j => ~PartLess(s[j], s[i])}

\* ------------------------------------------------------- fslocal.ListParts
\* mutant: the file is listed as one part, however long it is
FileParts_Unsliced(path, size) == {Part(path, size, 0, size, size)}

\* mutant: an empty file is skipped instead of listed as a zero-size part
FileParts_SkipEmpty(path, size) ==
    {Part(path, size, k * MaxPartSize,
          Min(size - k * MaxPartSize, MaxPartSize),
          Min(size - k * MaxPartSize, MaxPartSize)) :
        k \in {j \in 0..size : j * MaxPartSize < size}}

\* mutant: the last part is as long as the others
FileParts_FullLast(path, size) ==
    IF size = 0
    THEN {Part(path, 0, 0, 0, 0)}
    ELSE {Part(path, size, k * MaxPartSize, MaxPartSize, MaxPartSize) :
             k \in {j \in 0..size : j * MaxPartSize < size}}

\* the parts of one regular file of length size
FileParts(path, size) ==
    IF size = 0
    THEN {Part(path, 0, 0, 0, 0)}
    ELSE {Part(path, size, k * MaxPartSize,
               Min(size - k * MaxPartSize, MaxPartSize),
               Min(size - k * MaxPartSize, MaxPartSize)) :
             k \in {j \in 0..size : j * MaxPartSize < size}}

\* fs maps the path of every regular file under fs.Dir to its bytes
ListParts(fs) == UNION {FileParts(path, Len(fs[path])) : path \in DOMAIN fs}

\* ------------------------------------------- Restore.Run, validation loop
Ok == [kind |-> "ok", path |-> "", got |-> 0, want |-> 0]
Failure(kind, path, got, want) == [kind |-> kind, path |-> path, got |-> got, want |-> want]

\* mutant: the loop does not compare p.Size with p.ActualSize
RECURSIVE ValidateFrom_NoSizeCheck(_, _, _, _, _)
ValidateFrom_NoSizeCheck(s, i, offset, pOld, path) ==
    IF i > Len(s) THEN Ok
    ELSE
      LET p       == s[i]
          newFile == p.Path # path
          offset1 == IF newFile THEN 0 ELSE offset
          pOld1   == IF newFile THEN p ELSE pOld
      IN  IF newFile /\ offset # pOld.FileSize
            THEN Failure("file_size", path, offset, pOld.FileSize)
          ELSE IF p.Offset < offset1
            THEN Failure("overlap", p.Path, offset1 - p.Offset, 0)
          ELSE IF p.Offset > offset1
            THEN IF offset1 = 0
                 THEN Failure("gap_from_start", p.Path, p.Offset, 0)
                 ELSE Failure("gap", p.Path, p.Offset - offset1, 0)
          ELSE ValidateFrom_NoSizeCheck(s, i + 1, offset1 + p.Size, pOld1, p.Path)

RECURSIVE ValidateFrom(_, _, _, _, _)
ValidateFrom(s, i, offset, pOld, path) ==
    IF i > Len(s) THEN Ok
    ELSE
      LET p       == s[i]
          newFile == p.Path # path
          offset1 == IF newFile THEN 0 ELSE offset
          pOld1   == IF newFile THEN p ELSE pOld
      IN  IF newFile /\ offset # pOld.FileSize
            THEN Failure("file_size", path, offset, pOld.FileSize)
          ELSE IF p.Offset < offset1
            THEN Failure("overlap", p.Path, offset1 - p.Offset, 0)
          ELSE IF p.Offset > offset1
            THEN IF offset1 = 0
                 THEN Failure("gap_from_start", p.Path, p.Offset, 0)
                 ELSE Failure("gap", p.Path, p.Offset - offset1, 0)
          ELSE IF p.Size # p.ActualSize
            THEN Failure("part_size", p.Path, p.ActualSize, p.Size)
          ELSE ValidateFrom(s, i + 1, offset1 + p.Size, pOld1, p.Path)

Validate(s) == ValidateFrom(s, 1, 0, ZeroPart, "")

\* ------------------------------------------------------------ the remote
\* the byte of part p at index k (1-based) of the stored object
PartByte(p, k) == p.Offset + k

\* what a remote listing may hold: for "a" the one-part files of 1 and 2
\* bytes, the 3-byte file cut at MaxPartSize or after its first byte and a
\* part that declares another file size, for "d/b" the empty file, the
\* 1-byte file and its part stored with no bytes
SrcPool ==
    {Part("a", 1, 0, 1, 1), Part("a", 2, 0, 2, 2),
     Part("a", 3, 0, 2, 2), Part("a", 3, 2, 1, 1),
     Part("a", 3, 0, 1, 1), Part("a", 3, 1, 2, 2), Part("a", 2, 1, 2, 2),
     Part("d/b", 0, 0, 0, 0), Part("d/b", 1, 0, 1, 1), Part("d/b", 1, 0, 1, 0)}

\* ------------------------------------------------------- local files
RECURSIVE Zeros(_)
Zeros(n) == IF n = 0 THEN <<>> ELSE Append(Zeros(n - 1), 0)
RECURSIVE SrcBytes(_)
SrcBytes(n) == IF n = 0 THEN <<>> ELSE Append(SrcBytes(n - 1), n)

MaxLenOf(path) == IF path = "a" THEN MaxFileSize ELSE 1
InitContents(path) ==
    {Zeros(n) : n \in 0..MaxLenOf(path)} \cup {SrcBytes(n) : n \in 1..MaxLenOf(path)}

\* mutant: the file is emptied, not removed
RemoveFile_Truncate(fs, path) ==
    [q \in DOMAIN fs |-> IF q = path THEN <<>> ELSE fs[q]]

\* os.Remove
RemoveFile(fs, path) == [q \in (DOMAIN fs) \ {path} |-> fs[q]]

\* os.OpenFile(O_WRONLY|O_CREATE): the file is created empty when missing
CreateFile(fs, path) ==
    [q \in (DOMAIN fs) \cup {path} |-> IF q \in DOMAIN fs THEN fs[q] ELSE <<>>]

\* a write of one byte at position pos (0-based); a write past the end
\* leaves a hole of zero bytes
WriteAt(data, pos, byte) ==
    IF pos < Len(data)
    THEN [data EXCEPT ![pos + 1] = byte]
    ELSE data \o Zeros(pos - Len(data)) \o <<byte>>

\* fscommon.RemoveEmptyDirs: the directories that still hold a regular file
RemoveEmptyDirs(ds, fs) == {d \in ds : \E path \in DOMAIN fs : d \in ParentDir(path)}

\* --------------------------------------------- one run without interruption
\* the file after DownloadPart copied bytes k+1..p.Size of part p into it
RECURSIVE WritePart(_, _, _)
WritePart(data, p, k) ==
    IF k >= p.Size THEN data
    ELSE WritePart(WriteAt(data, p.Offset + k, PartByte(p, k + 1)), p, k + 1)

\* the file after the parts of one path group were written in offset order
RECURSIVE WriteGroup(_, _)
WriteGroup(data, parts) ==
    IF parts = {} THEN data
    ELSE LET p == CHOOSE q \in parts : \A r \in parts : q.Offset <= r.Offset
         IN  WriteGroup(WritePart(data, p, 0), parts \ {p})

\* dst after Restore.Run deleted, listed again and downloaded without an
\* error, started with the remote parts src and the local files fs
RunResult(src, fs) ==
    LET gone == PathsOf(PartsDifference(ListParts(fs), src))
        kept == [q \in (DOMAIN fs) \ gone |-> fs[q]]
        copy == PartsDifference(src, ListParts(kept))
    IN  [q \in (DOMAIN kept) \cup PathsOf(copy) |->
            WriteGroup(IF q \in DOMAIN kept THEN kept[q] ELSE <<>>,
                       PartsOfPath(copy, q))]

\* ------------------------------------------------------------------ state
VARIABLES
    srcParts,         \* the parts the remote holds (src.ListParts)
    files,            \* dst: path of every regular file |-> its bytes
    dirs,             \* dst: the subdirectories that exist
    pc,               \* where Restore.Run stands
    runNo,            \* how many times vmrestore was started
    err,              \* the error Restore.Run returns
    dstParts,         \* dstParts
    partsToDelete,    \* partsToDelete
    pathsToDelete,    \* pathsToDelete, the paths not yet deleted
    deleteSize,       \* deleteSize
    partsToCopy,      \* partsToCopy
    downloadSize,     \* downloadSize
    workCh,           \* the path groups no worker has taken yet
    wk,               \* the workers of runParallelPerPath
    bytesDownloaded,  \* bytesDownloaded
    writers,          \* the parts whose writeCloser is open
    \* history of the run, read by the properties only
    uninterrupted,    \* the files one uninterrupted run leaves when started
                      \* where vmrestore was started first
    startFiles,       \* files when this run started
    deleted,          \* the paths this run called DeletePath on
    opened,           \* the paths this run opened a writer on
    pruned,           \* this run called RemoveEmptyDirs
    closedNow,        \* the parts whose writer this run closed
    closedPrev,       \* the parts whose writer the previous run closed
    outcomes,         \* how the earlier runs ended
    \* one call of a library function or of main, outside Restore.Run
    dl,               \* gcsremote FS.DownloadPart
    rm,               \* fs.MustRemoveAll
    cfg,              \* vmrestore main
    ls,               \* fslocal FS.ListParts
    wfa               \* fs.WriteFileAtomically, its callers and their files

hist == <<uninterrupted, startFiles, deleted, opened, pruned, closedNow, closedPrev, outcomes>>
run  == <<dstParts, partsToDelete, pathsToDelete, deleteSize, partsToCopy,
          downloadSize, workCh, wk, bytesDownloaded, writers>>
restore == <<srcParts, files, dirs, pc, runNo, err, run, hist>>
lib  == <<dl, rm, cfg, ls, wfa>>
vars == <<restore, lib>>

\* no call of the function is under way
Off == [pc |-> "off"]

NoErr == [phase |-> "none", kind |-> "", path |-> "", got |-> 0, want |-> 0]
Error(phase, path) == [phase |-> phase, kind |-> "", path |-> path, got |-> 0, want |-> 0]

Idle == [st |-> "idle", todo |-> <<>>, written |-> 0]

Running == {"list", "validate", "delete", "prune", "relist", "download"}

\* main built the Restore with concurrency workers and calls Restore.Run
InitRun(concurrency) ==
    /\ srcParts \in {S \in SUBSET SrcPool : Cardinality(S) <= MaxSrcParts}
    /\ \E present \in SUBSET Paths :
          files \in {f \in [present -> UNION {InitContents(q) : q \in Paths}] :
                        \A q \in present : f[q] \in InitContents(q)}
    /\ dirs \in {ds \in SUBSET Dirs : \A q \in DOMAIN files : ParentDir(q) \subseteq ds}
    /\ pc = "list"
    /\ runNo = 1
    /\ err = NoErr
    /\ dstParts = {}
    /\ partsToDelete = {}
    /\ pathsToDelete = {}
    /\ deleteSize = 0
    /\ partsToCopy = {}
    /\ downloadSize = 0
    /\ workCh = {}
    /\ wk = [w \in 1..concurrency |-> Idle]
    /\ bytesDownloaded = 0
    /\ writers = {}
    /\ uninterrupted = RunResult(srcParts, files)
    /\ startFiles = files
    /\ deleted = {}
    /\ opened = {}
    /\ pruned = FALSE
    /\ closedNow = {}
    /\ closedPrev = {}
    /\ outcomes = <<>>

LibOff == dl = Off /\ rm = Off /\ cfg = Off /\ ls = Off /\ wfa = Off

Init == InitRun(Concurrency) /\ LibOff

\* ------------------------------------------------------------ Restore.Run
\* src.ListParts and dst.ListParts succeed
ListBoth ==
    /\ pc = "list"
    /\ dstParts' = ListParts(files)
    /\ pc' = "validate"
    /\ UNCHANGED <<srcParts, files, dirs, runNo, err, partsToDelete, pathsToDelete,
                   deleteSize, partsToCopy, downloadSize, workCh, wk,
                   bytesDownloaded, hist>>
    /\ UNCHANGED lib
    /\ UNCHANGED writers

\* "cannot list src parts", "cannot list dst parts"
ListFail ==
    /\ pc = "list"
    /\ \E phase \in {"list_src", "list_dst"} : err' = Error(phase, "")
    /\ pc' = "failed"
    /\ UNCHANGED <<srcParts, files, dirs, runNo, run, hist>>
    /\ UNCHANGED lib

\* mutant: only the files the remote knows are collected for deletion
PathsToDelete_SrcOnly(parts) == PathsOf(parts) \cap PathsOf(srcParts)

\* the paths of the local files that hold a part the remote does not hold
PathsToDelete(parts) == PathsOf(parts)

\* mutant: the files are deleted before the result of the validation loop
\* is looked at
ValidateSrc_AfterDelete ==
    /\ pc = "validate"
    /\ \E s \in SortParts(srcParts) :
         LET r    == Validate(s)
             gone == PathsToDelete(PartsDifference(dstParts, srcParts))
         IN  IF r.kind # "ok"
             THEN /\ err' = [phase |-> "validate", kind |-> r.kind, path |-> r.path,
                             got |-> r.got, want |-> r.want]
                  /\ pc' = "failed"
                  /\ files' = [q \in (DOMAIN files) \ gone |-> files[q]]
                  /\ deleted' = deleted \cup gone
                  /\ UNCHANGED <<partsToDelete, pathsToDelete>>
             ELSE /\ partsToDelete' = PartsDifference(dstParts, srcParts)
                  /\ pathsToDelete' = PathsToDelete(partsToDelete')
                  /\ pc' = IF partsToDelete' = {} THEN "relist" ELSE "delete"
                  /\ UNCHANGED <<err, files, deleted>>
    /\ UNCHANGED <<srcParts, dirs, runNo, dstParts, deleteSize, partsToCopy,
                   downloadSize, workCh, wk, bytesDownloaded,
                   uninterrupted, startFiles, opened, pruned, closedNow, closedPrev,
                   outcomes>>
    /\ UNCHANGED lib
    /\ UNCHANGED writers

\* the validation loop over the sorted srcParts, then partsToDelete
ValidateSrc ==
    /\ pc = "validate"
    /\ \E s \in SortParts(srcParts) :
         LET r == Validate(s)
         IN  IF r.kind # "ok"
             THEN /\ err' = [phase |-> "validate", kind |-> r.kind, path |-> r.path,
                             got |-> r.got, want |-> r.want]
                  /\ pc' = "failed"
                  /\ UNCHANGED <<partsToDelete, pathsToDelete>>
             ELSE /\ partsToDelete' = PartsDifference(dstParts, srcParts)
                  /\ pathsToDelete' = PathsToDelete(partsToDelete')
                  /\ pc' = IF partsToDelete' = {} THEN "relist" ELSE "delete"
                  /\ UNCHANGED err
    /\ UNCHANGED <<srcParts, files, dirs, runNo, dstParts, deleteSize, partsToCopy,
                   downloadSize, workCh, wk, bytesDownloaded, hist>>
    /\ UNCHANGED lib
    /\ UNCHANGED writers

\* mutant: DeletePath returns no size
DeletedSize_Zero(fs, path) == 0

\* fslocal DeletePath: the size DeletePath returns, 0 for a missing file
DeletedSize(fs, path) == IF path \in DOMAIN fs THEN Len(fs[path]) ELSE 0

\* dst.DeletePath(path) for one more path of pathsToDelete (map order)
DeleteNext ==
    /\ pc = "delete"
    /\ \E path \in pathsToDelete :
         /\ files' = RemoveFile(files, path)
         /\ deleteSize' = deleteSize + DeletedSize(files, path)
         /\ pathsToDelete' = pathsToDelete \ {path}
         /\ deleted' = deleted \cup {path}
         /\ pc' = IF pathsToDelete' = {} THEN "prune" ELSE "delete"
    /\ UNCHANGED <<srcParts, dirs, runNo, err, dstParts, partsToDelete, partsToCopy,
                   downloadSize, workCh, wk, bytesDownloaded,
                   uninterrupted, startFiles, opened, pruned, closedNow, closedPrev, outcomes>>
    /\ UNCHANGED lib
    /\ UNCHANGED writers

\* "cannot delete %s from %s"
DeleteFail ==
    /\ pc = "delete"
    /\ \E path \in pathsToDelete : err' = Error("delete", path)
    /\ pc' = "failed"
    /\ UNCHANGED <<srcParts, files, dirs, runNo, run, hist>>
    /\ UNCHANGED lib

\* dst.RemoveEmptyDirs() after the deletions
Prune ==
    /\ pc = "prune"
    /\ dirs' = RemoveEmptyDirs(dirs, files)
    /\ pruned' = TRUE
    /\ pc' = "relist"
    /\ UNCHANGED <<srcParts, files, runNo, err, run,
                   uninterrupted, startFiles, deleted, opened, closedNow, closedPrev, outcomes>>
    /\ UNCHANGED lib

\* "cannot remove empty directories"
PruneFail ==
    /\ pc = "prune"
    /\ err' = Error("prune", "")
    /\ pruned' = TRUE
    /\ pc' = "failed"
    /\ UNCHANGED <<srcParts, files, dirs, runNo, run,
                   uninterrupted, startFiles, deleted, opened, closedNow, closedPrev, outcomes>>
    /\ UNCHANGED lib

\* mutant: every remote part is copied, whatever the destination holds
PartsToCopy_All(src, dst) == src

\* partsToCopy: the remote parts the destination does not hold
PartsToCopy(src, dst) == PartsDifference(src, dst)

\* mutant: every part is a group of its own
PerPath_PerPart(parts) == {{p} : p \in parts}

\* perPath: the parts grouped by their path
PerPath(parts) == {PartsOfPath(parts, path) : path \in PathsOf(parts)}

\* the second dst.ListParts, partsToCopy, downloadSize and perPath
Relist ==
    /\ pc = "relist"
    /\ dstParts' = ListParts(files)
    /\ partsToCopy' = PartsToCopy(srcParts, dstParts')
    /\ downloadSize' = getPartsSize(partsToCopy')
    /\ workCh' = PerPath(partsToCopy')
    /\ bytesDownloaded' = 0
    /\ pc' = IF partsToCopy' = {} THEN "done" ELSE "download"
    /\ UNCHANGED <<srcParts, files, dirs, runNo, err, partsToDelete, pathsToDelete,
                   deleteSize, wk, hist>>
    /\ UNCHANGED lib
    /\ UNCHANGED writers

\* "cannot list dst parts after the deletion"
RelistFail ==
    /\ pc = "relist"
    /\ err' = Error("relist", "")
    /\ pc' = "failed"
    /\ UNCHANGED <<srcParts, files, dirs, runNo, run, hist>>
    /\ UNCHANGED lib

\* the process ends: the locals of Restore.Run and its goroutines are gone
ProcessExit ==
    /\ dstParts' = {}
    /\ partsToDelete' = {}
    /\ pathsToDelete' = {}
    /\ deleteSize' = 0
    /\ partsToCopy' = {}
    /\ downloadSize' = 0
    /\ workCh' = {}
    /\ wk' = [w \in DOMAIN wk |-> Idle]
    /\ bytesDownloaded' = 0
    /\ writers' = {}

\* ------------------------------------------------ the download worker pool
\* runParallelPerPath keeps the first error
FirstErr(e) == IF err = NoErr THEN e ELSE err

\* mutant: a worker takes the next path group whether or not it holds one
TakeGroup_WhileBusy(w) ==
    /\ pc = "download"
    /\ w \in DOMAIN wk
    /\ err = NoErr
    /\ \E parts \in workCh :
         /\ workCh' = workCh \ {parts}
         /\ \E s \in SortParts(parts) :
              wk' = [wk EXCEPT ![w] = [st |-> "ready", todo |-> s, written |-> 0]]
    /\ UNCHANGED <<srcParts, files, dirs, pc, runNo, err, dstParts, partsToDelete,
                   pathsToDelete, deleteSize, partsToCopy, downloadSize,
                   bytesDownloaded, hist>>
    /\ UNCHANGED lib
    /\ UNCHANGED writers

\* a worker takes the next path group; the callback sorts it
TakeGroup(w) ==
    /\ pc = "download"
    /\ w \in DOMAIN wk
    /\ wk[w].st = "idle"
    /\ err = NoErr
    /\ \E parts \in workCh :
         /\ workCh' = workCh \ {parts}
         /\ \E s \in SortParts(parts) :
              wk' = [wk EXCEPT ![w] = [st |-> "ready", todo |-> s, written |-> 0]]
    /\ UNCHANGED <<srcParts, files, dirs, pc, runNo, err, dstParts, partsToDelete,
                   pathsToDelete, deleteSize, partsToCopy, downloadSize,
                   bytesDownloaded, hist>>
    /\ UNCHANGED lib
    /\ UNCHANGED writers

\* dst.NewWriteCloser(p): mkdirAll, then the file is opened at p.Offset
NewWriteCloser(w) ==
    /\ pc = "download"
    /\ w \in DOMAIN wk
    /\ wk[w].st = "ready"
    /\ LET p == Head(wk[w].todo)
       IN  /\ dirs' = dirs \cup ParentDir(p.Path)
           /\ files' = CreateFile(files, p.Path)
           /\ opened' = opened \cup {p.Path}
           /\ writers' = writers \cup {p}
    /\ wk' = [wk EXCEPT ![w].st = "writing", ![w].written = 0]
    /\ UNCHANGED <<srcParts, pc, runNo, err, dstParts, partsToDelete, pathsToDelete,
                   deleteSize, partsToCopy, downloadSize, workCh, bytesDownloaded,
                   uninterrupted, startFiles, deleted, pruned, closedNow, closedPrev, outcomes>>
    /\ UNCHANGED lib

\* "cannot create writer": the callback returns the error
NewWriteCloserFail(w) ==
    /\ pc = "download"
    /\ w \in DOMAIN wk
    /\ wk[w].st = "ready"
    /\ err' = FirstErr(Error("writer", Head(wk[w].todo).Path))
    /\ wk' = [wk EXCEPT ![w] = Idle]
    /\ UNCHANGED <<srcParts, files, dirs, pc, runNo, dstParts, partsToDelete,
                   pathsToDelete, deleteSize, partsToCopy, downloadSize, workCh,
                   bytesDownloaded, hist>>
    /\ UNCHANGED lib
    /\ UNCHANGED writers

\* mutant: the writer starts at the beginning of the file, not at p.Offset
WriteByte_AtStart(w) ==
    /\ pc = "download"
    /\ w \in DOMAIN wk
    /\ wk[w].st = "writing"
    /\ LET p == Head(wk[w].todo)
           k == wk[w].written
       IN  /\ k < p.Size
           /\ files' = [files EXCEPT ![p.Path] = WriteAt(@, k, PartByte(p, k + 1))]
    /\ wk' = [wk EXCEPT ![w].written = @ + 1]
    /\ bytesDownloaded' = bytesDownloaded + 1
    /\ UNCHANGED <<srcParts, dirs, pc, runNo, err, dstParts, partsToDelete,
                   pathsToDelete, deleteSize, partsToCopy, downloadSize, workCh, hist>>
    /\ UNCHANGED lib
    /\ UNCHANGED writers

\* mutant: the counter is read and written back without atomic.AddUint64,
\* so the increment of a worker is lost when another worker writes too
WriteByte_LostUpdate(w) ==
    /\ pc = "download"
    /\ w \in DOMAIN wk
    /\ wk[w].st = "writing"
    /\ LET p == Head(wk[w].todo)
           k == wk[w].written
       IN  /\ k < p.Size
           /\ files' = [files EXCEPT ![p.Path] = WriteAt(@, p.Offset + k, PartByte(p, k + 1))]
    /\ wk' = [wk EXCEPT ![w].written = @ + 1]
    /\ bytesDownloaded' \in
          IF \E v \in DOMAIN wk : v # w /\ wk[v].st = "writing"
          THEN {bytesDownloaded, bytesDownloaded + 1}
          ELSE {bytesDownloaded + 1}
    /\ UNCHANGED <<srcParts, dirs, pc, runNo, err, dstParts, partsToDelete,
                   pathsToDelete, deleteSize, partsToCopy, downloadSize, workCh, hist>>
    /\ UNCHANGED lib
    /\ UNCHANGED writers

\* src.DownloadPart copies one more byte through statWriter into the file
WriteByte(w) ==
    /\ pc = "download"
    /\ w \in DOMAIN wk
    /\ wk[w].st = "writing"
    /\ LET p == Head(wk[w].todo)
           k == wk[w].written
       IN  /\ k < p.Size
           /\ files' = [files EXCEPT ![p.Path] = WriteAt(@, p.Offset + k, PartByte(p, k + 1))]
    /\ wk' = [wk EXCEPT ![w].written = @ + 1]
    /\ bytesDownloaded' = bytesDownloaded + 1
    /\ UNCHANGED <<srcParts, dirs, pc, runNo, err, dstParts, partsToDelete,
                   pathsToDelete, deleteSize, partsToCopy, downloadSize, workCh, hist>>
    /\ UNCHANGED lib
    /\ UNCHANGED writers

\* mutant: after a failed DownloadPart the callback records the error and
\* goes on with the next part of the group
DownloadFail_Continue(w) ==
    /\ pc = "download"
    /\ w \in DOMAIN wk
    /\ wk[w].st = "writing"
    /\ err' = FirstErr(Error("download", Head(wk[w].todo).Path))
    /\ wk' = [wk EXCEPT ![w] = IF Len(wk[w].todo) = 1 THEN Idle
                                 ELSE [st |-> "ready", todo |-> Tail(wk[w].todo),
                                       written |-> 0]]
    /\ UNCHANGED <<srcParts, files, dirs, pc, runNo, dstParts, partsToDelete,
                   pathsToDelete, deleteSize, partsToCopy, downloadSize, workCh,
                   bytesDownloaded, hist>>
    /\ UNCHANGED lib
    /\ UNCHANGED writers

\* "cannot download": DownloadPart fails after any number of bytes; the
\* callback returns without closing the writer
DownloadFail(w) ==
    /\ pc = "download"
    /\ w \in DOMAIN wk
    /\ wk[w].st = "writing"
    /\ err' = FirstErr(Error("download", Head(wk[w].todo).Path))
    /\ wk' = [wk EXCEPT ![w] = Idle]
    /\ UNCHANGED <<srcParts, files, dirs, pc, runNo, dstParts, partsToDelete,
                   pathsToDelete, deleteSize, partsToCopy, downloadSize, workCh,
                   bytesDownloaded, hist>>
    /\ UNCHANGED lib
    /\ UNCHANGED writers

\* DownloadPart returned nil (all p.Size bytes copied) and wc.Close() succeeds
CloseWriter(w) ==
    /\ pc = "download"
    /\ w \in DOMAIN wk
    /\ wk[w].st = "writing"
    /\ wk[w].written = Head(wk[w].todo).Size
    /\ closedNow' = closedNow \cup {Head(wk[w].todo)}
    /\ writers' = writers \ {Head(wk[w].todo)}
    /\ wk' = [wk EXCEPT ![w] = IF Len(wk[w].todo) = 1 THEN Idle
                                 ELSE [st |-> "ready", todo |-> Tail(wk[w].todo),
                                       written |-> 0]]
    /\ UNCHANGED <<srcParts, files, dirs, pc, runNo, err, dstParts, partsToDelete,
                   pathsToDelete, deleteSize, partsToCopy, downloadSize, workCh,
                   bytesDownloaded,
                   uninterrupted, startFiles, deleted, opened, pruned, closedPrev, outcomes>>
    /\ UNCHANGED lib

\* "cannot close": wc.Close() fails after the download of the part
CloseFail(w) ==
    /\ pc = "download"
    /\ w \in DOMAIN wk
    /\ wk[w].st = "writing"
    /\ wk[w].written = Head(wk[w].todo).Size
    /\ err' = FirstErr(Error("close", Head(wk[w].todo).Path))
    /\ writers' = writers \ {Head(wk[w].todo)}
    /\ wk' = [wk EXCEPT ![w] = Idle]
    /\ UNCHANGED <<srcParts, files, dirs, pc, runNo, dstParts, partsToDelete,
                   pathsToDelete, deleteSize, partsToCopy, downloadSize, workCh,
                   bytesDownloaded, hist>>
    /\ UNCHANGED lib

\* every group was processed without an error: Restore.Run returns nil
Finish ==
    /\ pc = "download"
    /\ err = NoErr
    /\ workCh = {}
    /\ \A w \in DOMAIN wk : wk[w].st = "idle"
    /\ pc' = "done"
    /\ UNCHANGED <<srcParts, files, dirs, runNo, err, run, hist>>
    /\ UNCHANGED lib

\* the pool hands the first error to Restore.Run once no worker is inside a
\* part; main then ends the process with logger.Fatalf
ReturnErr ==
    /\ pc = "download"
    /\ err # NoErr
    /\ \A w \in DOMAIN wk : wk[w].st # "writing"
    /\ pc' = "failed"
    /\ ProcessExit
    /\ UNCHANGED <<srcParts, files, dirs, runNo, err, hist>>
    /\ UNCHANGED lib

\* ------------------------------------------------------------ the process
\* the process is killed while Restore.Run runs; what was written stays
Kill ==
    /\ pc \in Running
    /\ pc' = "killed"
    /\ ProcessExit
    /\ UNCHANGED <<srcParts, files, dirs, runNo, err, hist>>
    /\ UNCHANGED lib

\* vmrestore is started again with the same arguments
Restart ==
    /\ pc \in {"done", "failed", "killed"}
    /\ runNo < MaxRuns
    /\ runNo' = runNo + 1
    /\ pc' = "list"
    /\ err' = NoErr
    /\ ProcessExit
    /\ startFiles' = files
    /\ deleted' = {}
    /\ opened' = {}
    /\ pruned' = FALSE
    /\ closedPrev' = closedNow
    /\ closedNow' = {}
    /\ outcomes' = Append(outcomes, pc)
    /\ UNCHANGED <<srcParts, files, dirs, uninterrupted>>
    /\ UNCHANGED lib

Next ==
    \/ ListBoth
    \/ ListFail
    \/ ValidateSrc
    \/ DeleteNext
    \/ DeleteFail
    \/ Prune
    \/ PruneFail
    \/ Relist
    \/ RelistFail
    \/ \E w \in Workers : TakeGroup(w)
    \/ \E w \in Workers : NewWriteCloser(w)
    \/ \E w \in Workers : NewWriteCloserFail(w)
    \/ \E w \in Workers : WriteByte(w)
    \/ \E w \in Workers : DownloadFail(w)
    \/ \E w \in Workers : CloseWriter(w)
    \/ \E w \in Workers : CloseFail(w)
    \/ Finish
    \/ ReturnErr
    \/ Kill
    \/ Restart

Spec == Init /\ [][Next]_vars

\* the runs into an empty destination, with every pool size up to Concurrency
InitPool ==
    /\ \E concurrency \in 1..Concurrency : InitRun(concurrency)
    /\ DOMAIN files = {}
    /\ LibOff

SpecPool == InitPool /\ [][Next]_vars

\* one start of vmrestore: Restore.Run from every source and destination of
\* Init, ended by its return or by a kill, and not started again
NextRun ==
    \/ ListBoth
    \/ ListFail
    \/ ValidateSrc
    \/ DeleteNext
    \/ DeleteFail
    \/ Prune
    \/ PruneFail
    \/ Relist
    \/ RelistFail
    \/ \E w \in Workers : TakeGroup(w)
    \/ \E w \in Workers : NewWriteCloser(w)
    \/ \E w \in Workers : NewWriteCloserFail(w)
    \/ \E w \in Workers : WriteByte(w)
    \/ \E w \in Workers : DownloadFail(w)
    \/ \E w \in Workers : CloseWriter(w)
    \/ \E w \in Workers : CloseFail(w)
    \/ Finish
    \/ ReturnErr
    \/ Kill

SpecRun == Init /\ [][NextRun]_vars

\* ============================================= calls outside Restore.Run
\* ------------------------------------------------- gcsremote DownloadPart
\* longest remote object: one byte more than a full part
MaxObjLen == MaxPartSize + 1

\* DownloadPart(p, w) is called: p.Size is size, the object holds objLen bytes
DownloadPartCalls ==
    {[pc |-> "NewReader", size |-> size, objLen |-> objLen, n |-> 0,
      openErr |-> FALSE, copyErr |-> FALSE, closeErr |-> FALSE, res |-> ""] :
        size \in 0..MaxPartSize, objLen \in 0..MaxObjLen}

\* o.NewReader(ctx)
DownloadPart_NewReader ==
    /\ dl.pc = "NewReader"
    /\ \/ dl' = [dl EXCEPT !.pc = "Copy"]
       \/ dl' = [dl EXCEPT !.pc = "returned", !.openErr = TRUE, !.res = "cannot open reader"]
    /\ UNCHANGED <<restore, rm, cfg, ls, wfa>>

\* n, err := io.Copy(w, r): the whole object, or the bytes before an error
DownloadPart_Copy ==
    /\ dl.pc = "Copy"
    /\ \/ dl' = [dl EXCEPT !.pc = "Close", !.n = dl.objLen]
       \/ \E k \in 0..dl.objLen : dl' = [dl EXCEPT !.pc = "Close", !.n = k, !.copyErr = TRUE]
    /\ UNCHANGED <<restore, rm, cfg, ls, wfa>>

\* mutant: the number of bytes copied is not compared with p.Size
DownloadPart_Return_Unchecked ==
    /\ dl.pc = "Close"
    /\ \E closeErr \in BOOLEAN :
         dl' = [dl EXCEPT !.pc = "returned", !.closeErr = closeErr,
                          !.res = IF dl.copyErr \/ closeErr THEN "cannot download"
                                  ELSE "nil"]
    /\ UNCHANGED <<restore, rm, cfg, ls, wfa>>

\* r.Close(), then the error of io.Copy or of Close, then the size check
DownloadPart_Return ==
    /\ dl.pc = "Close"
    /\ \E closeErr \in BOOLEAN :
         dl' = [dl EXCEPT !.pc = "returned", !.closeErr = closeErr,
                          !.res = IF dl.copyErr \/ closeErr THEN "cannot download"
                                  ELSE IF dl.n # dl.size THEN "wrong data size"
                                  ELSE "nil"]
    /\ UNCHANGED <<restore, rm, cfg, ls, wfa>>

\* ---------------------------------------------------- fslocal ListParts
\* longest local file listed: two full parts and one byte
MaxListLen == 2 * MaxPartSize + 1

\* ListParts() is called on a directory that exists or not; lens maps the
\* regular files under it to their lengths
ListPartsCalls ==
    {c \in {[pc |-> "call", exists |-> exists, lens |-> lens, parts |-> {}, res |-> ""] :
               exists \in BOOLEAN,
               lens \in UNION {[present -> 0..MaxListLen] : present \in SUBSET Paths}} :
        c.exists \/ DOMAIN c.lens = {}}

\* FS.ListParts: nil for a missing directory, an error of os.Stat or
\* AppendFiles, else the parts of every regular file
ListParts_Call ==
    /\ ls.pc = "call"
    /\ \/ /\ ~ls.exists
          /\ ls' = [ls EXCEPT !.pc = "returned", !.res = "nil"]
       \/ /\ ls.exists
          /\ \E res \in {"nil", "stat", "AppendFiles"}
                         \cup (IF DOMAIN ls.lens = {} THEN {} ELSE {"cannot stat"}) :
               ls' = [ls EXCEPT !.pc = "returned", !.res = res,
                         !.parts = IF res = "nil"
                                   THEN UNION {FileParts(path, ls.lens[path]) :
                                                  path \in DOMAIN ls.lens}
                                   ELSE {}]
    /\ UNCHANGED <<restore, dl, rm, cfg, wfa>>

\* ------------------------------------------------------ fs.MustRemoveAll
\* durations are in milliseconds
Millisecond == 1
Second == 1000 * Millisecond
Minute == 60 * Second

\* how long one os.RemoveAll takes when it is slow
SlowRemove == 500

\* MustRemoveAll(path) is called: startTime is now, sleepTime is 100 ms
MustRemoveAllCalls ==
    {[pc |-> "again", elapsed |-> 0, sleepTime |-> 100 * Millisecond, attempts |-> 0,
      slept |-> 0, lastErr |-> "", res |-> ""]}

\* again: os.RemoveAll(path), which takes no time or SlowRemove, and what
\* follows up to time.Sleep
MustRemoveAll_Attempt ==
    /\ rm.pc = "again"
    /\ \E d \in {0, SlowRemove}, e \in {"nil", "temporary", "other"} :
         LET now == rm.elapsed + d
         IN  rm' = [rm EXCEPT
                      !.elapsed = now,
                      !.attempts = @ + 1,
                      !.lastErr = e,
                      !.pc = IF e = "nil" THEN "returned"
                             ELSE IF e = "other" THEN "panic"
                             ELSE IF now > Minute THEN "panic"
                             ELSE "Sleep",
                      !.res = IF e = "nil" THEN "removed"
                              ELSE IF e = "other" THEN "cannot remove"
                              ELSE IF now > Minute THEN "could not remove NFS directory"
                              ELSE ""]
    /\ UNCHANGED <<restore, dl, cfg, ls, wfa>>

\* mutant: sleepTime doubles without a cap
MustRemoveAll_Sleep_Uncapped ==
    /\ rm.pc = "Sleep"
    /\ rm' = [rm EXCEPT !.pc = "again",
                        !.elapsed = @ + rm.sleepTime,
                        !.slept = rm.sleepTime,
                        !.sleepTime = 2 * rm.sleepTime]
    /\ UNCHANGED <<restore, dl, cfg, ls, wfa>>

\* time.Sleep(sleepTime); sleepTime *= 2, at most time.Second; goto again
MustRemoveAll_Sleep ==
    /\ rm.pc = "Sleep"
    /\ rm' = [rm EXCEPT !.pc = "again",
                        !.elapsed = @ + rm.sleepTime,
                        !.slept = rm.sleepTime,
                        !.sleepTime = IF 2 * rm.sleepTime > Second THEN Second
                                      ELSE 2 * rm.sleepTime]
    /\ UNCHANGED <<restore, dl, cfg, ls, wfa>>

\* --------------------------------------------------------- vmrestore main
\* main starts with the flags parsed: -src names a remote or is malformed,
\* -storageDataPath is its default or empty
MainCalls ==
    {[pc |-> "newSrcFS", src |-> src, storageDataPath |-> storageDataPath,
      srcFS |-> FALSE, dstFS |-> FALSE, ran |-> FALSE, fatal |-> ""] :
        src \in {"gcs://bucket/dir", "bucket/dir"},
        storageDataPath \in {"victoria-metrics-data", ""}}

\* srcFS, err := newSrcFS(): actions.NewRemoteFS parses -src and returns the
\* remote, ready for ListParts
Main_newSrcFS ==
    /\ cfg.pc = "newSrcFS"
    /\ \E ok \in IF cfg.src = "gcs://bucket/dir" THEN BOOLEAN ELSE {FALSE} :
         cfg' = IF ok THEN [cfg EXCEPT !.pc = "newDstFS", !.srcFS = TRUE]
                ELSE [cfg EXCEPT !.pc = "exit", !.fatal = "cannot parse -src"]
    /\ UNCHANGED <<restore, dl, rm, ls, wfa>>

\* dstFS, err := newDstFS()
Main_newDstFS ==
    /\ cfg.pc = "newDstFS"
    /\ cfg' = IF cfg.storageDataPath = ""
              THEN [cfg EXCEPT !.pc = "exit", !.fatal = "-storageDataPath cannot be empty"]
              ELSE [cfg EXCEPT !.pc = "Run", !.dstFS = TRUE]
    /\ UNCHANGED <<restore, dl, rm, ls, wfa>>

\* a.Run(): the listings, deletions and downloads of Restore.Run
Main_Run ==
    /\ cfg.pc = "Run"
    /\ \E fatal \in {"", "cannot restore from backup"} :
         cfg' = [cfg EXCEPT !.pc = "exit", !.ran = TRUE, !.fatal = fatal]
    /\ UNCHANGED <<restore, dl, rm, ls, wfa>>

\* ------------------------------------------------ fs.WriteFileAtomically
\* the goroutines that call WriteFileAtomically at the same time
Callers == {1, 2}

\* the paths they are called with
AtomicPaths == {"f", "g"}

\* file names: <<path, 0>> is path itself, <<path, n>> is path.tmp.n
Final(path) == <<path, 0>>
Tmp(path, n) == <<path, n>>

\* a file: its bytes, and whether they were synced to the storage
OnDisk(data, synced) == [data |-> data, synced |-> synced]

\* the data of caller c, and the data of a file that was there before
DataOf(c) == <<c, c>>
OldData == <<0>>

\* the first k bytes of data
Prefix(data, k) == SubSeq(data, 1, k)

\* WriteFileAtomically(path, data) is called by every caller; path, the
\* other caller's path and a temporary file an earlier process left may
\* exist; tmpFileNum is 0 when the process starts
WriteFileAtomicallyCalls ==
    {[pc |-> "on", fs |-> fs, init |-> fs, tmpFileNum |-> 0,
      calls |-> [c \in Callers |->
                   [pc |-> "IsPathExist", path |-> paths[c], data |-> DataOf(c),
                    n |-> 0, seen |-> OnDisk(<<>>, FALSE), res |-> ""]]] :
        paths \in [Callers -> AtomicPaths],
        fs \in UNION {[present -> {OnDisk(OldData, TRUE)}] :
                         present \in SUBSET {Final("f"), Final("g"), Tmp("f", 1)}}}

\* file system fs without the file name
Unlink(fs, name) == [q \in (DOMAIN fs) \ {name} |-> fs[q]]

\* file system fs with the file name holding file
Put(fs, name, file) ==
    [q \in (DOMAIN fs) \cup {name} |-> IF q = name THEN file ELSE fs[q]]

\* if IsPathExist(path) { return "cannot create file, since it already exists" }
WFA_IsPathExist(c) ==
    /\ wfa.pc = "on"
    /\ wfa.calls[c].pc = "IsPathExist"
    /\ LET call == wfa.calls[c]
       IN  wfa' = IF Final(call.path) \in DOMAIN wfa.fs
                  THEN [wfa EXCEPT !.calls[c].pc = "returned",
                                   !.calls[c].seen = wfa.fs[Final(call.path)],
                                   !.calls[c].res = "already exists"]
                  ELSE [wfa EXCEPT !.calls[c].pc = "AddUint64"]
    /\ UNCHANGED <<restore, dl, rm, cfg, ls>>

\* n := atomic.AddUint64(&tmpFileNum, 1); tmpPath is path.tmp.n
WFA_AddUint64(c) ==
    /\ wfa.pc = "on"
    /\ wfa.calls[c].pc = "AddUint64"
    /\ wfa' = [wfa EXCEPT !.tmpFileNum = @ + 1,
                          !.calls[c].n = wfa.tmpFileNum + 1,
                          !.calls[c].pc = "Create"]
    /\ UNCHANGED <<restore, dl, rm, cfg, ls>>

\* filestream.Create(tmpPath, false): an empty file, or an error
WFA_Create(c) ==
    /\ wfa.pc = "on"
    /\ wfa.calls[c].pc = "Create"
    /\ LET call == wfa.calls[c]
       IN  \/ wfa' = [wfa EXCEPT !.fs = Put(@, Tmp(call.path, call.n), OnDisk(<<>>, FALSE)),
                                 !.calls[c].pc = "Write"]
           \/ wfa' = [wfa EXCEPT !.calls[c].pc = "returned",
                                 !.calls[c].res = "cannot create file"]
    /\ UNCHANGED <<restore, dl, rm, cfg, ls>>

\* mutant: the error of f.Write is not looked at
WFA_Write_IgnoreErr(c) ==
    /\ wfa.pc = "on"
    /\ wfa.calls[c].pc = "Write"
    /\ LET call == wfa.calls[c]
           tmp  == Tmp(call.path, call.n)
       IN  \E k \in 0..Len(call.data) :
             wfa' = [wfa EXCEPT !.fs = Put(@, tmp, OnDisk(Prefix(call.data, k), FALSE)),
                               !.calls[c].pc = "MustClose"]
    /\ UNCHANGED <<restore, dl, rm, cfg, ls>>

\* f.Write(data): all of data, or an error after some of its bytes
WFA_Write(c) ==
    /\ wfa.pc = "on"
    /\ wfa.calls[c].pc = "Write"
    /\ LET call == wfa.calls[c]
           tmp  == Tmp(call.path, call.n)
       IN  \/ wfa' = [wfa EXCEPT !.fs = Put(@, tmp, OnDisk(call.data, FALSE)),
                                 !.calls[c].pc = "MustClose"]
           \/ \E k \in 0..(Len(call.data) - 1) :
                 wfa' = [wfa EXCEPT !.fs = Put(@, tmp, OnDisk(Prefix(call.data, k), FALSE)),
                                   !.calls[c].pc = "WriteErr"]
    /\ UNCHANGED <<restore, dl, rm, cfg, ls>>

\* after a write error: f.MustClose(); MustRemoveAll(tmpPath); return err
WFA_WriteErr(c) ==
    /\ wfa.pc = "on"
    /\ wfa.calls[c].pc = "WriteErr"
    /\ LET call == wfa.calls[c]
       IN  wfa' = [wfa EXCEPT !.fs = Unlink(@, Tmp(call.path, call.n)),
                             !.calls[c].pc = "returned",
                             !.calls[c].res = "cannot write"]
    /\ UNCHANGED <<restore, dl, rm, cfg, ls>>

\* f.MustClose(): sync and close the file
WFA_MustClose(c) ==
    /\ wfa.pc = "on"
    /\ wfa.calls[c].pc = "MustClose"
    /\ LET call == wfa.calls[c]
           tmp  == Tmp(call.path, call.n)
       IN  wfa' = [wfa EXCEPT !.fs = Put(@, tmp, OnDisk(wfa.fs[tmp].data, TRUE)),
                             !.calls[c].pc = "Rename"]
    /\ UNCHANGED <<restore, dl, rm, cfg, ls>>

\* os.Rename(tmpPath, path): rename(2) replaces path when it exists; on
\* an error the temporary file is left for inspection
WFA_Rename(c) ==
    /\ wfa.pc = "on"
    /\ wfa.calls[c].pc = "Rename"
    /\ LET call == wfa.calls[c]
           tmp  == Tmp(call.path, call.n)
       IN  \/ wfa' = [wfa EXCEPT !.fs = Put(Unlink(@, tmp), Final(call.path), wfa.fs[tmp]),
                                 !.calls[c].pc = "MustSyncPath"]
           \/ wfa' = [wfa EXCEPT !.calls[c].pc = "returned",
                                 !.calls[c].res = "cannot move"]
    /\ UNCHANGED <<restore, dl, rm, cfg, ls>>

\* MustSyncPath(parentDirPath); return nil
WFA_MustSyncPath(c) ==
    /\ wfa.pc = "on"
    /\ wfa.calls[c].pc = "MustSyncPath"
    /\ wfa' = [wfa EXCEPT !.calls[c].pc = "returned", !.calls[c].res = "nil"]
    /\ UNCHANGED <<restore, dl, rm, cfg, ls>>

\* the process ends while calls are under way: it is killed, or one of
\* MustClose, MustRemoveAll, MustSyncPath panics
WFA_Exit ==
    /\ wfa.pc = "on"
    /\ \E c \in Callers : wfa.calls[c].pc # "returned"
    /\ wfa' = [wfa EXCEPT !.pc = "exited"]
    /\ UNCHANGED <<restore, dl, rm, cfg, ls>>

\* ------------------------------------------------------- the single calls
\* Restore.Run is not running
RestoreOff ==
    /\ srcParts = {}
    /\ files = [q \in {} |-> <<>>]
    /\ dirs = {}
    /\ pc = "off"
    /\ runNo = 1
    /\ err = NoErr
    /\ dstParts = {}
    /\ partsToDelete = {}
    /\ pathsToDelete = {}
    /\ deleteSize = 0
    /\ partsToCopy = {}
    /\ downloadSize = 0
    /\ workCh = {}
    /\ wk = [w \in Workers |-> Idle]
    /\ bytesDownloaded = 0
    /\ writers = {}
    /\ uninterrupted = [q \in {} |-> <<>>]
    /\ startFiles = [q \in {} |-> <<>>]
    /\ deleted = {}
    /\ opened = {}
    /\ pruned = FALSE
    /\ closedNow = {}
    /\ closedPrev = {}
    /\ outcomes = <<>>

\* one call of DownloadPart, of ListParts, of MustRemoveAll or of main
InitLib ==
    /\ RestoreOff
    /\ \/ dl \in DownloadPartCalls /\ rm = Off /\ cfg = Off /\ ls = Off /\ wfa = Off
       \/ dl = Off /\ rm \in MustRemoveAllCalls /\ cfg = Off /\ ls = Off /\ wfa = Off
       \/ dl = Off /\ rm = Off /\ cfg \in MainCalls /\ ls = Off /\ wfa = Off
       \/ dl = Off /\ rm = Off /\ cfg = Off /\ ls \in ListPartsCalls /\ wfa = Off
       \/ dl = Off /\ rm = Off /\ cfg = Off /\ ls = Off /\ wfa \in WriteFileAtomicallyCalls

NextLib ==
    \/ DownloadPart_NewReader
    \/ DownloadPart_Copy
    \/ DownloadPart_Return
    \/ ListParts_Call
    \/ MustRemoveAll_Attempt
    \/ MustRemoveAll_Sleep
    \/ Main_newSrcFS
    \/ Main_newDstFS
    \/ Main_Run
    \/ \E c \in Callers : WFA_IsPathExist(c)
    \/ \E c \in Callers : WFA_AddUint64(c)
    \/ \E c \in Callers : WFA_Create(c)
    \/ \E c \in Callers : WFA_Write(c)
    \/ \E c \in Callers : WFA_WriteErr(c)
    \/ \E c \in Callers : WFA_MustClose(c)
    \/ \E c \in Callers : WFA_Rename(c)
    \/ \E c \in Callers : WFA_MustSyncPath(c)
    \/ WFA_Exit

SpecLib == InitLib /\ [][NextLib]_vars

\* ============================================================ properties
Last(s) == s[Len(s)]

\* Restore.Run got past the validation loop in this run
PastValidation == pc \in {"delete", "prune", "relist", "download", "done"}

\* partsToCopy is computed and not yet discarded
PastRelist == pc \in {"download", "done"}

\* the tiling invariants of a part set: per path one file_size, the
\* intervals partition [0, file_size), actual_size = size, and a zero-size
\* part only as the sole part of an empty file
Tiles(parts) ==
    \A path \in PathsOf(parts) :
        LET ps == PartsOfPath(parts, path)
            F  == (CHOOSE p \in ps : TRUE).FileSize
        IN  /\ \A p \in ps : p.FileSize = F /\ p.ActualSize = p.Size
            /\ \A p \in ps : p.Size = 0 => (ps = {p} /\ F = 0)
            /\ \A p \in ps : p.Offset + p.Size <= F
            /\ \A p, q \in ps :
                 p # q => (p.Offset + p.Size <= q.Offset \/ q.Offset + q.Size <= p.Offset)
            /\ \A i \in 0..(F - 1) : \E p \in ps : p.Offset <= i /\ i < p.Offset + p.Size

\* a file of n bytes cut into consecutive parts of MaxPartSize, the last
\* the remainder; an empty file is one zero-size part
Slices(path, n) ==
    IF n = 0 THEN {Part(path, 0, 0, 0, 0)}
    ELSE {Part(path, n, o, Min(MaxPartSize, n - o), Min(MaxPartSize, n - o)) :
             o \in {k \in 0..(n - 1) : k % MaxPartSize = 0}}

Keys(parts) == {PartKey(p) : p \in parts}

\* the listing of the local files fs
Listing(fs) == UNION {Slices(path, Len(fs[path])) : path \in DOMAIN fs}

\* the parts of path are cut the way the local enumeration cuts a file
CutAtMax(parts, path) ==
    \E n \in 0..MaxFileSize : Keys(PartsOfPath(parts, path)) = Keys(Slices(path, n))

\* the file tree the parts of one path encode: their bytes at their offsets
Encoded(parts, path) == WriteGroup(<<>>, PartsOfPath(parts, path))

\* C1 (as claimed): a run that succeeds after the earlier runs were killed
\* leaves the bytes that one uninterrupted run leaves from the first state
C1_ResumptionConverges ==
    (pc = "done" /\ outcomes # <<>> /\ \A i \in DOMAIN outcomes : outcomes[i] = "killed")
        => files = uninterrupted

\* C2 (as claimed): after a successful run every source path exists with
\* exactly the bytes of its parts at their offsets, whatever dst held before
C2_ByteForByte ==
    pc = "done" =>
        \A path \in PathsOf(srcParts) :
            path \in DOMAIN files /\ files[path] = Encoded(srcParts, path)

\* this run follows a run that returned nil
AfterDone == outcomes # <<>> /\ Last(outcomes) = "done"

\* this run follows a run that was killed or returned an error
AfterBroken == outcomes # <<>> /\ Last(outcomes) \in {"killed", "failed"}

\* C3 (as claimed): the run after a successful run finds nothing to delete
\* and nothing to copy and leaves the bytes as they are; stated for the
\* accepted sources that satisfy the tiling invariants, so that what the
\* validation loop lets through by mistake plays no part
C3_Idempotent ==
    (AfterDone /\ Tiles(srcParts)) =>
        /\ PastValidation => partsToDelete = {}
        /\ PastRelist => (partsToCopy = {} /\ downloadSize = 0)
        /\ pc = "done" => files = startFiles

\* C3 (amended): the same, for the sources whose files are cut the way the
\* local enumeration cuts them (at MaxPartSize, an empty file as one
\* zero-size part)
C3_IdempotentWhenCutAtMax ==
    (AfterDone /\ \A path \in PathsOf(srcParts) : CutAtMax(srcParts, path)) =>
        /\ PastValidation => partsToDelete = {}
        /\ PastRelist => (partsToCopy = {} /\ downloadSize = 0)
        /\ pc = "done" => files = startFiles

\* a second run ended after a first run that downloaded a two-part file
C3_Witness ==
    /\ AfterDone
    /\ pc = "done"
    /\ \A path \in PathsOf(srcParts) : CutAtMax(srcParts, path)
    /\ \E p \in closedPrev : p.Offset > 0

\* C4: after a successful run every regular file under dst has a path of
\* srcParts, and DeletePath was called on every local file whose listing
\* held a part the source does not hold
C4_NoOrphans ==
    pc = "done" =>
        /\ DOMAIN files \subseteq PathsOf(srcParts)
        /\ \A p \in Listing(startFiles) : PartKey(p) \notin Keys(srcParts) => p.Path \in deleted

\* a successful run that deleted a file the source does not know and left
\* a file of the source
C4_Witness ==
    /\ pc = "done"
    /\ \E path \in deleted : path \notin PathsOf(srcParts)
    /\ DOMAIN files # {}

\* every file of the source is cut at MaxPartSize, as the backup cuts it
AllCutAtMax == \A path \in PathsOf(srcParts) : CutAtMax(srcParts, path)

\* C5 (as claimed): no part whose writer the broken run before closed is
\* in partsToCopy of the rerun; stated for the sources cut at MaxPartSize
C5_NoPartTwice ==
    (AfterBroken /\ PastRelist /\ AllCutAtMax) => partsToCopy \cap closedPrev = {}

\* the run before closed the writer of every source part of the path, and
\* the path is cut at MaxPartSize
FileCompleted(path) ==
    /\ CutAtMax(srcParts, path)
    /\ PartsOfPath(srcParts, path) \subseteq closedPrev

\* C5 (amended): a part the broken run before closed is not in partsToCopy
\* of the rerun when that run closed every part of the part's file
C5_NoCompletedFileTwice ==
    (AfterBroken /\ PastRelist) =>
        \A p \in closedPrev : FileCompleted(p.Path) => p \notin partsToCopy

\* the rerun downloads the rest after the killed run completed the
\* two-part file
C5_Witness ==
    /\ AfterBroken
    /\ pc = "download"
    /\ \E p \in closedPrev : p.Offset > 0 /\ FileCompleted(p.Path)
    /\ partsToCopy # {}

\* the source holds path as a file of at least two parts cut at
\* MaxPartSize, and this run found it locally cut off after a part that is
\* not the last
Truncated(path) ==
    /\ path \in DOMAIN startFiles
    /\ \E n \in (MaxPartSize + 1)..MaxFileSize :
         /\ Keys(PartsOfPath(srcParts, path)) = Keys(Slices(path, n))
         /\ \E j \in 1..n : /\ j * MaxPartSize < n
                            /\ startFiles[path] = SrcBytes(j * MaxPartSize)

\* the source parts of path that start at or after the end of the local file
MissingParts(path) ==
    {p \in PartsOfPath(srcParts, path) : p.Offset >= Len(startFiles[path])}

\* C6 (as claimed): of a file found cut off at a part boundary nothing is
\* deleted, and exactly its missing parts are in partsToCopy
C6_OnlyMissingParts ==
    \A path \in Paths :
        Truncated(path) =>
            /\ PastValidation => (PartsOfPath(partsToDelete, path) = {} /\ path \notin deleted)
            /\ PastRelist => PartsOfPath(partsToCopy, path) = MissingParts(path)

\* C6 (amended): the local parts of a file found cut off at a part boundary
\* declare the shorter file_size, so all of them are in partsToDelete, the
\* file is deleted with its length added to deleteSize, and all parts of
\* the file are in partsToCopy
C6_TruncatedFileDiscarded ==
    \A path \in Paths :
        Truncated(path) =>
            /\ PastValidation =>
                 Slices(path, Len(startFiles[path])) \subseteq partsToDelete
            /\ pc \in {"prune", "relist", "download", "done"} =>
                 (path \in deleted /\ deleteSize >= Len(startFiles[path]))
            /\ PastRelist =>
                 /\ PartsOfPath(srcParts, path) \subseteq partsToCopy
                 /\ downloadSize >= getPartsSize(PartsOfPath(srcParts, path))

\* the download phase of a run that found "a" cut off after its first part
C6_Witness == pc = "download" /\ Truncated("a") /\ "a" \in opened

\* the parts of path agree on file_size, and their sizes sum to another value
OpenFile(path) ==
    LET ps == PartsOfPath(srcParts, path)
    IN  /\ ps # {}
        /\ \E F \in 0..MaxFileSize :
             (\A p \in ps : p.FileSize = F) /\ getPartsSize(ps) # F

\* C7 (as claimed): when the parts of some source file do not sum to its
\* file_size, the run does not get past the validation loop and neither
\* deletes nor downloads
C7_ClosureOfEveryFile ==
    (\E path \in Paths : OpenFile(path)) =>
        (~PastValidation /\ deleted = {} /\ opened = {})

\* C8 (as claimed): the validation loop accepts a source exactly when it
\* satisfies the tiling invariants
C8_ValidationTotality ==
    /\ PastValidation => Tiles(srcParts)
    /\ (pc = "failed" /\ err.phase = "validate") => ~Tiles(srcParts)

\* the first listings and the validation loop
EarlyPhases == {"list_src", "list_dst", "validate"}

\* this run left dst as it found it
Untouched == files = startFiles /\ deleted = {} /\ ~pruned /\ opened = {}

\* C9 (as claimed): a run that fails in the validation loop or in a listing
\* of src or dst has changed nothing in dst
C9_FailureLeavesDst ==
    (pc = "failed" /\ err.phase \in EarlyPhases \cup {"relist"}) => Untouched

\* C9 (amended): a run that fails in the validation loop or in the first
\* listing of src or dst has changed nothing in dst; the second listing of
\* dst comes after the deletions
C9_EarlyFailureLeavesDst ==
    (pc = "failed" /\ err.phase \in EarlyPhases) => Untouched

\* the validation loop rejected the source while dst held a file that the
\* source does not hold
C9_Witness ==
    /\ pc = "failed"
    /\ err.phase = "validate"
    /\ \E p \in Listing(files) : PartKey(p) \notin Keys(srcParts)

\* the local file at path lists exactly as the source parts of path
Matched(path) ==
    /\ path \in DOMAIN startFiles
    /\ Keys(Slices(path, Len(startFiles[path]))) = Keys(PartsOfPath(srcParts, path))

RECURSIVE SumLen(_, _)
SumLen(fs, S) == IF S = {} THEN 0
                 ELSE LET q == CHOOSE x \in S : TRUE
                      IN  (IF q \in DOMAIN fs THEN Len(fs[q]) ELSE 0) + SumLen(fs, S \ {q})

\* C10: a local file that lists exactly as the source parts of its path is
\* neither deleted nor opened for writing and keeps its bytes, none of its
\* parts is in partsToDelete or partsToCopy, downloadSize is the size of
\* partsToCopy, and deleteSize is the length of the files deleted so far
C10_MatchingFilesUntouched ==
    /\ \A path \in Paths :
         Matched(path) =>
            /\ path \notin deleted /\ path \notin opened
            /\ path \in DOMAIN files /\ files[path] = startFiles[path]
            /\ PartsOfPath(partsToDelete, path) = {}
            /\ PartsOfPath(partsToCopy, path) = {}
    /\ PastRelist => downloadSize = getPartsSize(partsToCopy)
    /\ pc \in Running \cup {"done"} => deleteSize = SumLen(startFiles, deleted)

\* a successful run that kept a matching file and deleted a stale one
C10_Witness ==
    /\ pc = "done"
    /\ \E path \in Paths : Matched(path) /\ Len(startFiles[path]) > 0
    /\ deleteSize > 0
    /\ downloadSize = 0

\* C11 (as claimed): a run whose source lists no parts succeeds whatever dst
\* held, leaves no regular file and no subdirectory under dst, and has
\* called RemoveEmptyDirs
C11_EmptySourceLeavesDstEmpty ==
    (srcParts = {} /\ PastValidation) =>
        /\ pc # "failed" \/ err.phase # "validate"
        /\ pc = "done" => (DOMAIN files = {} /\ dirs = {} /\ pruned)

\* the parts of path whose writer is open
WritersOn(path) == {p \in writers : p.Path = path}

\* the workers that hold a path group
Busy == {w \in DOMAIN wk : wk[w].st # "idle"}

\* the parts worker w has still to download, the current one first
Todo(w) == {wk[w].todo[i] : i \in DOMAIN wk[w].todo}

\* C12: at most one writer is open on a destination path, the parts a
\* worker holds have one path, no two workers hold parts of the same path,
\* and no group that waits in the queue has the path of a group a worker
\* holds
C12_SingleWriterPerPath ==
    /\ \A path \in Paths : Cardinality(WritersOn(path)) <= 1
    /\ \A w \in Busy : \A p, q \in Todo(w) : p.Path = q.Path
    /\ \A v, w \in Busy : \A p \in Todo(v), q \in Todo(w) : p.Path = q.Path => v = w
    /\ \A w \in Busy : \A p \in Todo(w) : \A g \in workCh : \A q \in g : q.Path # p.Path

\* writers of two paths are open at the same time, one of them on the
\* second part of its file
C12_Witness ==
    /\ pc = "download"
    /\ \E p, q \in writers : p.Path # q.Path /\ p.Offset > 0

\* C13 (as claimed): a worker downloads the parts of its path in strictly
\* ascending offset order (what it has closed lies below the part it is at,
\* what is to come lies above), and the only writer open on the path is
\* the one of the part the worker is at: none between two parts
C13_OrderedDurable ==
    \A w \in Busy :
        LET s == wk[w].todo
            p == Head(s)
        IN  /\ \A i, j \in DOMAIN s : i < j => s[i].Offset < s[j].Offset
            /\ \A q \in closedNow : q.Path = p.Path => q.Offset < p.Offset
            /\ WritersOn(p.Path) = IF wk[w].st = "writing" THEN {p} ELSE {}

\* what C14 says of a step of the download phase in both readings: the
\* step that records an error leaves the worker that failed without a
\* group, so the rest of its group is not downloaded; once an error is
\* recorded it is the one Restore.Run returns, no worker without a group
\* gets one, and a worker that holds a group gets no new parts
AbortStep ==
    /\ (err = NoErr /\ err' # NoErr) =>
          \E w \in Busy : wk'[w] = Idle
    /\ err # NoErr =>
          /\ err' = err
          /\ \A w \in DOMAIN wk :
                /\ wk[w].st = "idle" => wk'[w].st = "idle"
                /\ wk'[w].st # "idle" =>
                      \A i \in DOMAIN wk'[w].todo :
                          \E j \in DOMAIN wk[w].todo : wk'[w].todo[i] = wk[w].todo[j]
    /\ pc' = "failed" => err' = err /\ err # NoErr

\* C14 (as claimed): after the first error no group is started, the rest of
\* the failing group is not downloaded, Restore.Run returns the first
\* error, and a worker in flight finishes only the part it is at: once it
\* has closed a part of its group it opens no writer for a further part;
\* stated for the sources that satisfy the tiling invariants
C14_ErrorFirstAbort ==
    [][(pc = "download" /\ Tiles(srcParts)) =>
          /\ AbortStep
          /\ err # NoErr =>
                \A w \in DOMAIN wk :
                    (/\ wk[w].st = "ready"
                     /\ \E q \in closedNow : q.Path = Head(wk[w].todo).Path)
                        => wk'[w].st # "writing"]_vars

\* C14 (amended): the same, but a worker in flight may go on with the
\* further parts of the group it holds
C14_ErrorFirstAbortOfGroups == [][pc = "download" => AbortStep]_vars

\* an error is recorded while another worker is inside the first part of a
\* group of two parts
C14_Witness ==
    /\ pc = "download"
    /\ err # NoErr
    /\ \E w \in Busy : wk[w].st = "writing" /\ Len(wk[w].todo) = 2

\* the groups a worker has taken and not yet downloaded to the end, in a
\* run in which nothing has failed
InProcess == {g \in PerPath(partsToCopy) : g \notin workCh /\ ~(g \subseteq closedNow)}

OncePerGroup ==
    /\ \A p \in writers' \ writers : p \notin closedNow
    /\ \A w \in DOMAIN wk :
          (wk[w].st = "idle" /\ wk'[w].st = "ready") =>
              Head(wk'[w].todo).Path \notin opened

\* the worker pool does not hold back: a worker without a group can take
\* one whenever a group waits and nothing has failed
WorkConserving ==
    (pc = "download" /\ err = NoErr /\ workCh # {}) =>
        \A w \in DOMAIN wk : wk[w].st = "idle" => ENABLED TakeGroup(w)

C16_DownloadPartChecksSize ==
    dl.pc = "returned" =>
        /\ dl.res = "nil" <=>
              (~dl.openErr /\ ~dl.copyErr /\ ~dl.closeErr /\ dl.n = dl.size)
        /\ dl.n # dl.size => dl.res # "nil"
        /\ (dl.copyErr \/ dl.closeErr) => dl.res # "nil"

\* the object held one byte more than p.Size and was copied without error
C16_Witness ==
    /\ dl.pc = "returned"
    /\ dl.n = dl.size + 1
    /\ dl.size > 0
    /\ ~dl.copyErr /\ ~dl.closeErr
    /\ dl.res = "wrong data size"

\* how many parts a file of length > 0 has: the length over MaxPartSize,
\* rounded up
PartCount(length) == (length + MaxPartSize - 1) \div MaxPartSize

\* C17: ListParts of a missing directory returns no parts and no error; a
\* listing without error holds parts of the regular files only; a file of
\* length 0 gives one part (0, 0, 0); a file of length L > 0 gives
\* PartCount(L) parts with file_size L and actual_size = size, at the
\* offsets 0, MaxPartSize, 2 * MaxPartSize, ..., all of size MaxPartSize but
\* the last, which is the remainder between 1 and MaxPartSize
C17_ListPartsSlicing ==
    ls.pc = "returned" =>
        /\ ~ls.exists => (ls.res = "nil" /\ ls.parts = {})
        /\ ls.res = "nil" =>
              /\ \A p \in ls.parts : p.Path \in DOMAIN ls.lens
              /\ \A path \in DOMAIN ls.lens :
                    LET L  == ls.lens[path]
                        ps == {p \in ls.parts : p.Path = path}
                        n  == PartCount(L)
                    IN  IF L = 0
                        THEN ps = {Part(path, 0, 0, 0, 0)}
                        ELSE /\ Cardinality(ps) = n
                             /\ \A p \in ps : p.FileSize = L /\ p.ActualSize = p.Size
                             /\ {p.Offset : p \in ps} = {k * MaxPartSize : k \in 0..(n - 1)}
                             /\ \A p \in ps :
                                   /\ p.Size \in 1..MaxPartSize
                                   /\ p.Size = IF p.Offset = (n - 1) * MaxPartSize
                                               THEN L - (n - 1) * MaxPartSize
                                               ELSE MaxPartSize
                             /\ L = MaxPartSize => n = 1
                             /\ L = MaxPartSize + 1 =>
                                   (n = 2 /\ \E p \in ps : p.Offset = MaxPartSize /\ p.Size = 1)

\* a listing of a file of MaxPartSize + 1 bytes and a file of three parts
C17_Witness ==
    /\ ls.pc = "returned"
    /\ ls.res = "nil"
    /\ \E path \in DOMAIN ls.lens : ls.lens[path] = MaxPartSize + 1
    /\ \E path \in DOMAIN ls.lens : ls.lens[path] = 2 * MaxPartSize + 1
    /\ Cardinality(ls.parts) = 5

\* C18: when a run into an empty destination succeeds for a source cut the
\* way a backup cuts a file tree, ListParts of the destination returns the
\* source parts, under the identity (path, file_size, offset, size)
C18_TilingRoundTrip ==
    (pc = "done" /\ DOMAIN startFiles = {} /\ AllCutAtMax /\ Tiles(srcParts)) =>
        Keys(ListParts(files)) = Keys(srcParts)

\* such a run restored a file of two parts and an empty file
C18_Witness ==
    /\ pc = "done"
    /\ DOMAIN startFiles = {}
    /\ AllCutAtMax /\ Tiles(srcParts)
    /\ \E p \in srcParts : p.Offset > 0
    /\ \E p \in srcParts : p.FileSize = 0
    /\ closedNow = srcParts

\* the wait the claim gives after the k-th failed attempt, in milliseconds
Backoff(k) == CASE k = 1 -> 100 * Millisecond
                [] k = 2 -> 200 * Millisecond
                [] k = 3 -> 400 * Millisecond
                [] k = 4 -> 800 * Millisecond
                [] OTHER -> 1 * Second

\* C19: MustRemoveAll sleeps and tries again only after a transient error;
\* the wait after the k-th failed attempt is Backoff(k); after transient
\* errors it panics only when more than 60 s have passed since it started;
\* and it returns exactly when an attempt succeeded, without a further
\* attempt
C19_RobustRemoval ==
    /\ rm.pc = "Sleep" =>
          (rm.lastErr = "temporary" /\ rm.sleepTime = Backoff(rm.attempts))
    /\ (rm.pc = "again" /\ rm.attempts >= 1) =>
          (rm.lastErr = "temporary" /\ rm.slept = Backoff(rm.attempts))
    /\ (rm.pc = "panic" /\ rm.lastErr = "temporary") => rm.elapsed > 60 * Second
    /\ rm.pc = "panic" => rm.lastErr \in {"temporary", "other"}
    /\ rm.pc = "returned" <=> (rm.pc # "off" /\ rm.lastErr = "nil")

\* the budget ran out: the waits had reached one second, a transient error
\* came after more than 60 s
C19_Witness ==
    /\ rm.pc = "panic"
    /\ rm.lastErr = "temporary"
    /\ rm.slept = 1 * Second
    /\ rm.attempts > 60

\* C20: when -storageDataPath is the empty string, main ends with a fatal
\* configuration error, and it does so before the remote backend is
\* initialised and before Restore.Run lists, deletes or downloads anything
C20_ConfigErrorBeforeIO ==
    (cfg.pc = "exit" /\ cfg.storageDataPath = "") =>
        /\ cfg.fatal # ""
        /\ ~cfg.srcFS
        /\ ~cfg.ran

\* the listing of the local file at path holds a part the remote does not
Stale(path) ==
    /\ path \in DOMAIN startFiles
    /\ \E p \in FileParts(path, Len(startFiles[path])) : PartKey(p) \notin Keys(srcParts)

\* C21: a local file with at least one part (path, file_size, offset, size)
\* that the source does not hold is deleted as a whole, and after the second
\* listing every source part of its path is in partsToCopy, also the parts
\* whose bytes the local file held
C21_WholeFileDiscard ==
    \A path \in Paths :
        Stale(path) =>
            /\ pc \in {"prune", "relist", "download", "done"} => path \in deleted
            /\ pc \in {"prune", "relist"} => path \notin DOMAIN files
            /\ pc = "relist" => PartsOfPath(ListParts(files), path) = {}
            /\ PastRelist => PartsOfPath(srcParts, path) \subseteq partsToCopy

\* the local file held the first two bytes of the backup's file a under
\* another file size; the part of these two bytes is downloaded again
C21_Witness ==
    /\ pc = "download"
    /\ Stale("a")
    /\ startFiles["a"] = SrcBytes(MaxPartSize)
    /\ Part("a", MaxFileSize, 0, MaxPartSize, MaxPartSize) \in partsToCopy
    /\ "a" \in opened

\* the expected offset when the walk reaches s[i]: the sizes of the parts
\* of the same file before it
RECURSIVE ExpectedOffset(_, _)
ExpectedOffset(s, i) ==
    IF i = 1 \/ s[i - 1].Path # s[i].Path THEN 0
    ELSE ExpectedOffset(s, i - 1) + s[i - 1].Size

\* the first part of the file s[i] belongs to
FirstOfFile(s, i) ==
    s[CHOOSE j \in 1..i : /\ s[j].Path = s[i].Path
                          /\ \A k \in 1..(j - 1) : s[k].Path # s[i].Path]

\* what the rules of the claim say about s[i], the parts before it having
\* passed
Verdict(s, i) ==
    LET p        == s[i]
        expected == ExpectedOffset(s, i)
        pathEnds == i > 1 /\ s[i - 1].Path # p.Path
        prevEnd  == ExpectedOffset(s, i - 1) + s[i - 1].Size
        prevSize == FirstOfFile(s, i - 1).FileSize
    IN  IF pathEnds /\ prevEnd # prevSize
          THEN Failure("file_size", s[i - 1].Path, prevEnd, prevSize)
        ELSE IF p.Offset < expected
          THEN Failure("overlap", p.Path, expected - p.Offset, 0)
        ELSE IF p.Offset > expected /\ expected = 0
          THEN Failure("gap_from_start", p.Path, p.Offset, 0)
        ELSE IF p.Offset > expected
          THEN Failure("gap", p.Path, p.Offset - expected, 0)
        ELSE IF p.ActualSize # p.Size
          THEN Failure("part_size", p.Path, p.ActualSize, p.Size)
        ELSE Ok

Rejected(s) == {i \in DOMAIN s : Verdict(s, i) # Ok}

FirstRejected(s) == CHOOSE i \in Rejected(s) : \A j \in Rejected(s) : i <= j

\* C22: walking the source parts sorted by (path, offset) with a running
\* expected offset per file, validation aborts at the first part that is
\* below the expected offset (overlap of expected - offset bytes), above it
\* (gap of offset - expected bytes, from file start when expected is 0), or
\* whose actual size differs from its size (invalid size), or at the first
\* path change that finds the expected offset different from the previous
\* file's size (invalid size for that path); it passes when no part does
C22_OverlapAndGapDetection ==
    /\ (pc = "failed" /\ err.phase = "validate") =>
          \E s \in SortParts(srcParts) :
              /\ Rejected(s) # {}
              /\ LET v == Verdict(s, FirstRejected(s))
                 IN  /\ err.kind = v.kind /\ err.path = v.path
                     /\ err.got = v.got /\ err.want = v.want
    /\ PastValidation => \E s \in SortParts(srcParts) : Rejected(s) = {}

\* a gap of one byte after the first part of a three-byte file was reported
C22_Witness ==
    /\ pc = "failed"
    /\ err.phase = "validate"
    /\ err.kind = "gap"
    /\ err.got = 1
    /\ Cardinality(srcParts) = MaxSrcParts

\* the length of the local file at path, 0 when there is none
LenOf(path) == IF path \in DOMAIN files THEN Len(files[path]) ELSE 0

\* every source path has all of its parts in partsToCopy or none
AllOrNone ==
    \A path \in PathsOf(srcParts) :
        PartsOfPath(partsToCopy, path) \in {{}, PartsOfPath(srcParts, path)}

\* C23: for every source the validation accepted and every destination,
\* the download of a part starts at the current length of its file and
\* goes on at its end, so no write leaves a hole; and after the second
\* listing every source path has all of its parts in partsToCopy or none
C23_ContiguousGrowth ==
    /\ pc = "download" =>
          \A w \in DOMAIN wk :
              /\ wk[w].st = "ready" => Head(wk[w].todo).Offset = LenOf(Head(wk[w].todo).Path)
              /\ wk[w].st = "writing" =>
                    Head(wk[w].todo).Offset + wk[w].written = LenOf(Head(wk[w].todo).Path)
    /\ PastRelist => AllOrNone

\* C24: every writer NewWriteCloser returned is closed before its worker
\* leaves the callback, also when DownloadPart returned an error: an open
\* writer belongs to a worker that is downloading its part, and none is
\* open once Restore.Run returned
C24_EveryWriterClosed ==
    /\ pc = "download" =>
          \A p \in writers :
              \E w \in DOMAIN wk : wk[w].st = "writing" /\ Head(wk[w].todo) = p
    /\ pc \in {"done", "failed"} => writers = {}

\* the bytes the workers have written into the parts they hold
RECURSIVE WrittenBy(_)
WrittenBy(W) ==
    IF W = {} THEN 0
    ELSE LET w == CHOOSE v \in W : TRUE
         IN  (IF wk[w].st = "writing" THEN wk[w].written ELSE 0) + WrittenBy(W \ {w})

\* C25: bytesDownloaded only increases during the download, no increment
\* of a worker is lost whatever the interleaving (while no download failed
\* the counter is the size of the parts downloaded plus the bytes written of
\* the parts under way), and when Restore.Run returns nil it equals
\* downloadSize, the sum of the sizes of partsToCopy
C25_ProgressAccounting ==
    /\ []((pc = "download" /\ err = NoErr) =>
             bytesDownloaded = getPartsSize(closedNow) + WrittenBy(DOMAIN wk))
    /\ [](pc = "done" =>
             (bytesDownloaded = downloadSize /\ downloadSize = getPartsSize(partsToCopy)))
    /\ [][(pc = "download" /\ pc' = "download") => bytesDownloaded' >= bytesDownloaded]_vars

\* two workers downloaded the parts of two files at the same time and
\* Restore.Run returned nil
C25_Witness ==
    /\ pc = "done"
    /\ Cardinality(opened) = 2
    /\ bytesDownloaded > MaxPartSize
    /\ bytesDownloaded = downloadSize

\* the calls of WriteFileAtomically are under way or over
WfaOn == wfa.pc \in {"on", "exited"}

\* a call that found path returned the error, and the file is as it found it
RefusesExisting ==
    \A c \in Callers :
        LET call == wfa.calls[c]
        IN  /\ call.res = "already exists" =>
                  /\ Final(call.path) \in DOMAIN wfa.init \/
                        \E d \in Callers : d # c /\ wfa.calls[d].path = call.path
                  /\ Final(call.path) \in DOMAIN wfa.fs
                  /\ wfa.fs[Final(call.path)] = call.seen
            /\ (Final(call.path) \in DOMAIN wfa.init /\ call.pc # "IsPathExist") =>
                  call.res = "already exists"

\* path does not exist, or holds what it held before the calls, or the
\* complete, synced data of a call with this path
AbsentOrComplete ==
    \A path \in AtomicPaths :
        Final(path) \in DOMAIN wfa.fs =>
            \/ /\ Final(path) \in DOMAIN wfa.init
               /\ wfa.fs[Final(path)] = wfa.init[Final(path)]
            \/ \E c \in Callers :
                  /\ wfa.calls[c].path = path
                  /\ wfa.calls[c].pc \in {"MustSyncPath", "returned"}
                  /\ wfa.fs[Final(path)] = OnDisk(wfa.calls[c].data, TRUE)

\* the temporary files of two calls have different names
UniqueTmp ==
    \A c, d \in Callers :
        (c # d /\ wfa.calls[c].n > 0 /\ wfa.calls[d].n > 0) =>
            Tmp(wfa.calls[c].path, wfa.calls[c].n) # Tmp(wfa.calls[d].path, wfa.calls[d].n)

\* a call that returned a write error removed its temporary file and did
\* not create path
CleanAfterWriteError ==
    \A c \in Callers :
        LET call == wfa.calls[c]
        IN  call.res = "cannot write" =>
              /\ Tmp(call.path, call.n) \notin DOMAIN wfa.fs
              /\ Final(call.path) \in DOMAIN wfa.fs =>
                    wfa.fs[Final(call.path)].data # call.data

\* a step leaves every path that exists as it is
NoOverwrite ==
    (WfaOn /\ wfa'.pc \in {"on", "exited"}) =>
        \A path \in AtomicPaths :
            Final(path) \in DOMAIN wfa.fs =>
                /\ Final(path) \in DOMAIN wfa'.fs
                /\ wfa'.fs[Final(path)] = wfa.fs[Final(path)]

\* C26: WriteFileAtomically never overwrites (a call that finds path
\* returns an error and the file stays as it is; no step changes a path that
\* exists); at every point of a call, also after an interruption or a write
\* error, path does not exist or holds the complete data; the data goes to
\* a temporary file whose name no concurrent call has, and is renamed onto
\* path only when fully written and synced; after a write error the
\* temporary file is removed and path is not created
C26_AtomicNeverOverwrites ==
    /\ [](WfaOn => (RefusesExisting /\ AbsentOrComplete /\ UniqueTmp /\ CleanAfterWriteError))
    /\ [][NoOverwrite]_vars

\* no two calls have the same path
DistinctPaths ==
    \A c, d \in Callers : c # d => wfa.calls[c].path # wfa.calls[d].path

\* C26, amended: as C26, but no step changes a path that exists only when
\* no two calls that run at the same time have the same path
C26_AtomicWhenPathsDiffer ==
    /\ [](WfaOn => (RefusesExisting /\ AbsentOrComplete /\ UniqueTmp /\ CleanAfterWriteError))
    /\ [][(WfaOn /\ DistinctPaths) => NoOverwrite]_vars

\* of two calls with different paths one created its file and the other
\* returned a write error
C26_Witness ==
    /\ wfa.pc = "on"
    /\ DistinctPaths
    /\ \E c, d \in Callers :
          /\ wfa.calls[c].res = "nil"
          /\ wfa.fs[Final(wfa.calls[c].path)] = OnDisk(wfa.calls[c].data, TRUE)
          /\ wfa.calls[d].res = "cannot write"
          /\ wfa.calls[d].n > wfa.calls[c].n

====
